---- MODULE Spec2Model ----
(***************************************************************************)
(* A model of _lldbtest/main.py: the run of run_tests over the parsed test *)
(* cases (setup, the case loop of execute_tests, the interactive console,  *)
(* the report, the exit status and the cleanup), and, each on its own, the *)
(* check functions, parse_expected_values and format_value.                *)
(*                                                                         *)
(* Python values:                                                          *)
(*   a str is a sequence of one-character strings, <<"a", " ", "b">>;      *)
(*   a value that may be None is a sequence of length 0 (None) or 1;       *)
(*   a set of names is a set of strs.                                      *)
(* The debugger backend (lldb) is outside the program: what it answers is  *)
(* chosen with \E in the actions.                                          *)
(***************************************************************************)
EXTENDS Integers, Sequences, FiniteSets, TLC

VARIABLES
    test_cases,      \* run_tests: the list parse_expected_values returned
    interactive,     \* run_tests: the -i flag
    pc,              \* where the control of run_tests / execute_tests / run_console is
    idx,             \* execute_tests: 1-based position of test_case in test_cases
    results,         \* execute_tests: the TestResults being accumulated
    breakpoint,      \* execute_tests: id of the breakpoint of the current case, 0 before the first
    target,          \* LLDBDebugger.target: "none", "valid", "invalid"
    process,         \* LLDBDebugger.process: "none", "invalid", "stopped", "running", "exited", "killed"
    is_async,        \* SBDebugger async mode (SetAsync)
    breakpoints,     \* ids of the breakpoints execute_tests created that still exist in the target
    destroyed,       \* SBDebugger.Destroy was called
    continue_tests,  \* run_console: the flag it returns
    sigint_handler,  \* signal.getsignal(SIGINT): "caller" or "console"
    streams,         \* sys.stdin/stdout/stderr: "caller" or "terminal"
    exc,             \* the exception in flight, [type, msg]
    exit_status,     \* "none" while the process lives, then "0", "1" or "KeyboardInterrupt"
    errors_logged,   \* the messages of log(f"Error: ...") in run_tests
    reported,        \* <<>>, or <<the TestResults print_test_results printed>>
    hist,            \* what happened so far (history of the run, not program state)
    arg,             \* input of a function checked on its own
    ret              \* <<>>, or <<its result>>

runVars     == <<test_cases, interactive>>
dbgVars     == <<target, process, is_async, breakpoints, destroyed>>
consoleVars == <<continue_tests, sigint_handler, streams>>
outVars     == <<exit_status, errors_logged, reported>>
fnVars      == <<arg, ret>>
vars == <<test_cases, interactive, pc, idx, results, breakpoint, target, process,
          is_async, breakpoints, destroyed, continue_tests, sigint_handler, streams,
          exc, exit_status, errors_logged, reported, hist, arg, ret>>

-----------------------------------------------------------------------------
(* Bounds of the model *)

MaxCases == 2        \* test cases in a run
MaxLen == 5          \* characters of an expected value drawn for a check function
MaxValueLen == 3     \* characters of a rendered value drawn for a check function
MaxLines == 5        \* lines of a source file drawn for the parser

-----------------------------------------------------------------------------
(* Python values *)

None == <<>>
Some(v) == <<v>>
IsNone(o) == Len(o) = 0
Get(o) == o[1]

Whitespace == {" ", "\t", "\n"}

\* str.split(' ') in the place of str.split(): every single space separates,
\* so that empty strings are among the parts
RECURSIVE split_single_space_scan(_, _, _)
split_single_space_scan(s, k, cur) ==
    IF k > Len(s)
    THEN <<cur>>
    ELSE IF s[k] = " "
         THEN <<cur>> \o split_single_space_scan(s, k + 1, <<>>)
         ELSE split_single_space_scan(s, k + 1, Append(cur, s[k]))

split_single_space(s) == split_single_space_scan(s, 1, <<>>)

\* str.split(): the maximal runs of non-whitespace characters, in order
RECURSIVE split_scan(_, _, _)
split_scan(s, k, cur) ==
    IF k > Len(s)
    THEN IF cur = <<>> THEN <<>> ELSE <<cur>>
    ELSE IF s[k] \in Whitespace
         THEN IF cur = <<>>
              THEN split_scan(s, k + 1, <<>>)
              ELSE <<cur>> \o split_scan(s, k + 1, <<>>)
         ELSE split_scan(s, k + 1, Append(cur, s[k]))

split(s) == split_scan(s, 1, <<>>)

\* set(list)
set(seq) == {seq[k] : k \in 1..Len(seq)}

\* str.lstrip(), str.rstrip(), str.strip()
RECURSIVE lstrip(_)
lstrip(s) ==
    IF s # <<>> /\ Head(s) \in Whitespace THEN lstrip(Tail(s)) ELSE s

RECURSIVE rstrip(_)
rstrip(s) ==
    IF s # <<>> /\ s[Len(s)] \in Whitespace THEN rstrip(SubSeq(s, 1, Len(s) - 1)) ELSE s

strip(s) == rstrip(lstrip(s))

\* str.startswith
startswith(s, prefix) ==
    Len(s) >= Len(prefix) /\ SubSeq(s, 1, Len(prefix)) = prefix

\* sep.join(elements)
RECURSIVE join(_, _)
join(elements, sep) ==
    IF elements = <<>> THEN <<>>
    ELSE IF Len(elements) = 1 THEN elements[1]
    ELSE elements[1] \o sep \o join(Tail(elements), sep)

Digits == <<"0", "1", "2", "3", "4", "5", "6", "7", "8", "9">>

\* str(n) of an int n >= 0
RECURSIVE str_int(_)
str_int(n) ==
    IF n < 10 THEN <<Digits[n + 1]>> ELSE str_int(n \div 10) \o <<Digits[(n % 10) + 1]>>

\* s.split(sub)[-1] for a two-character sub: what follows its last occurrence
after_last_sub(s, sub) ==
    LET at == {k \in 1..(Len(s) - 1) : SubSeq(s, k, k + 1) = sub}
    IN  IF at = {} THEN s
        ELSE SubSeq(s, (CHOOSE k \in at : \A m \in at : m <= k) + 2, Len(s))

-----------------------------------------------------------------------------
(***************************************************************************)
(* The dataclasses.  A run of this model reads one source file, so the     *)
(* source_file fields, equal everywhere, are left out.                     *)
(***************************************************************************)

ALL_VARIABLES == <<"a","l","l"," ","v","a","r","i","a","b","l","e","s">>

Test(line_number, variable, expected_value) ==
    [line_number |-> line_number, variable |-> variable, expected_value |-> expected_value]

TestResult(test, status, actual, message, missing, extra) ==
    [test |-> test, status |-> status, actual |-> actual, message |-> message,
     missing |-> missing, extra |-> extra]

TestCase(start_line, end_line, tests) ==
    [start_line |-> start_line, end_line |-> end_line, tests |-> tests]

CaseResult(test_case, function, res) ==
    [test_case |-> test_case, function |-> function, results |-> res]

TestResults(total, passed, failed, case_results) ==
    [total |-> total, passed |-> passed, failed |-> failed, case_results |-> case_results]

-----------------------------------------------------------------------------
(***************************************************************************)
(* LLDBDebugger: values.  An SBValue is a record                           *)
(*   valid         IsValid()                                               *)
(*   name          GetName()                                               *)
(*   type_name     GetTypeName(), GetType().GetName()                      *)
(*   type_class    GetType().GetTypeClass(): "Builtin", "Struct", "Class", *)
(*                 "Array"; IsArrayType() is type_class = "Array"          *)
(*   element_type  GetType().GetArrayElementType().GetName() of an array   *)
(*   element_class the type class of the element type of an array          *)
(*   children      GetChildAtIndex(i) for i < GetNumChildren(); for a      *)
(*                 slice, the len elements its data pointer points to      *)
(*   value         GetValue(), a str or None                               *)
(*   summary       GetSummary(), a str or None                             *)
(*   data, len     the GetValue() of the children 'data' and 'len' of a    *)
(*                 string or slice                                         *)
(*   read          what ReadCStringFromMemory answers for it, a str or None*)
(* The frames of a run hold scalars and strings; the values format_value   *)
(* is called with on its own are scalars, strings, complex numbers,        *)
(* structs, arrays and slices.                                             *)
(***************************************************************************)

STR_None == <<"N", "o", "n", "e">>

SBValue(valid, type_name, value, summary, data, len, read) ==
    [valid |-> valid, type_name |-> type_name, value |-> value, summary |-> summary,
     data |-> data, len |-> len, read |-> read,
     name |-> <<>>, type_class |-> "Builtin", element_type |-> <<>>,
     element_class |-> "Invalid", children |-> <<>>]

InvalidValue == SBValue(FALSE, <<>>, None, None, None, 0, None)

\* SBType.IsArrayType()
IsArrayType(var) == var.type_class = "Array"

\* SBValue.GetChildMemberWithName
GetChildMemberWithName(var, name) ==
    IF \E k \in 1..Len(var.children) : var.children[k].name = name
    THEN var.children[CHOOSE k \in 1..Len(var.children) : var.children[k].name = name]
    ELSE InvalidValue

\* self.type_mapping.get(type_name, type_name)
type_mapping_get(type_name) ==
    IF type_name = <<"l", "o", "n", "g">> THEN <<"i", "n", "t">>
    ELSE IF type_name = <<"u", "n", "s", "i", "g", "n", "e", "d", " ", "l", "o", "n", "g">>
         THEN <<"u", "i", "n", "t">>
         ELSE type_name

\* str(v) of a value that is a str or None
str(o) == IF IsNone(o) THEN STR_None ELSE Get(o)

\* str.strip(chars)
RECURSIVE lstrip_chars(_, _)
lstrip_chars(s, chars) ==
    IF s # <<>> /\ Head(s) \in chars THEN lstrip_chars(Tail(s), chars) ELSE s

RECURSIVE rstrip_chars(_, _)
rstrip_chars(s, chars) ==
    IF s # <<>> /\ s[Len(s)] \in chars
    THEN rstrip_chars(SubSeq(s, 1, Len(s) - 1), chars)
    ELSE s

strip_chars(s, chars) == rstrip_chars(lstrip_chars(s, chars), chars)

format_string(var) ==
    IF ~IsNone(var.summary)
    THEN Some(strip_chars(Get(var.summary), {"\""}))
    ELSE IF ~IsNone(var.data) /\ Get(var.data) # <<>> /\ var.len # 0
         THEN var.read
         ELSE Some(STR_None)

format_complex(var) ==
    LET real == GetChildMemberWithName(var, <<"r", "e", "a", "l">>).value
        imag == GetChildMemberWithName(var, <<"i", "m", "a", "g">>).value
    IN  var.type_name \o <<"(", "r", "e", "a", "l", " ", "=", " ">> \o str(real)
          \o <<",", " ", "i", "m", "a", "g", " ", "=", " ">> \o str(imag) \o <<")">>

\* format_value and the formatters that call it back for the children; an
\* element or member that format_value renders as None (a string the
\* backend does not read) makes join raise and is not among the inputs
RECURSIVE format_value(_)

format_slice(var) ==
    LET elements == [i \in 1..var.len |-> Get(format_value(var.children[i]))]
        type_name == type_mapping_get(after_last_sub(var.type_name, <<"[", "]">>))
    IN  <<"[", "]">> \o type_name \o <<"[">> \o join(elements, <<",", " ">>) \o <<"]">>

format_array(var) ==
    LET elements == [i \in 1..Len(var.children) |-> Get(format_value(var.children[i]))]
        array_size == Len(var.children)
        type_name == type_mapping_get(var.element_type)
    IN  <<"[">> \o str_int(array_size) \o <<"]">> \o type_name
          \o <<"[">> \o join(elements, <<",", " ">>) \o <<"]">>

format_struct(var, include_type) ==
    LET children == [i \in 1..Len(var.children) |->
                        var.children[i].name \o <<" ", "=", " ">>
                          \o Get(format_value(var.children[i]))]
        struct_content == <<"(">> \o join(children, <<",", " ">>) \o <<")">>
    IN  IF include_type THEN var.type_name \o struct_content ELSE struct_content

format_custom_array(var) ==
    LET elements == [i \in 1..Len(var.children) |-> format_struct(var.children[i], FALSE)]
        array_size == Len(var.children)
        type_name == var.element_type
    IN  <<"[">> \o str_int(array_size) \o <<"]">> \o type_name
          \o <<"[">> \o join(elements, <<",", " ">>) \o <<"]">>

format_value(var) ==
    IF var.valid
    THEN IF startswith(var.type_name, <<"[", "]">>)
         THEN Some(format_slice(var))
         ELSE IF IsArrayType(var)
         THEN IF var.type_class \in {"Struct", "Class"}
              THEN Some(format_custom_array(var))
              ELSE Some(format_array(var))
         ELSE IF var.type_name = <<"s", "t", "r", "i", "n", "g">>
         THEN format_string(var)
         ELSE IF var.type_name \in {<<"c", "o", "m", "p", "l", "e", "x", "6", "4">>,
                                    <<"c", "o", "m", "p", "l", "e", "x", "1", "2", "8">>}
         THEN Some(format_complex(var))
         ELSE IF var.type_class \in {"Struct", "Class"}
         THEN Some(format_struct(var, TRUE))
         ELSE IF ~IsNone(var.value)
              THEN Some(Get(var.value))
              ELSE IF ~IsNone(var.summary)
                   THEN Some(Get(var.summary))
                   ELSE Some(STR_None)
    ELSE Some(STR_None)

\* s.split(c)[0]: what precedes the first c
RECURSIVE before_first(_, _)
before_first(s, c) ==
    IF s = <<>> \/ Head(s) = c THEN <<>> ELSE <<Head(s)>> \o before_first(Tail(s), c)

\* s.split(c)[-1]: what follows the last c
RECURSIVE after_last(_, _)
after_last(s, c) ==
    IF \E k \in 1..Len(s) : s[k] = c THEN after_last(Tail(s), c) ELSE s

\* SBFrame.FindVariable: frame.locals maps the names in scope to their values
FindVariable(frame, name) ==
    IF name \in DOMAIN frame.locals THEN frame.locals[name] ELSE InvalidValue

get_variable_value(frame, var_name) ==
    LET stripped == strip(before_first(var_name, "="))
        actual_var_name ==
            IF \E k \in 1..Len(stripped) : stripped[k] = "("
            THEN strip(after_last(stripped, "("))
            ELSE stripped
    IN  format_value(FindVariable(frame, actual_var_name))

get_all_variable_names(frame) == DOMAIN frame.locals

get_current_function_name(frame) == frame.function

-----------------------------------------------------------------------------
(* The checks *)

execute_all_variables_test(test, all_variable_names) ==
    LET expected_vars == set(split(test.expected_value))
    IN  IF expected_vars = all_variable_names
        THEN TestResult(test, "pass", Some(all_variable_names), None, None, None)
        ELSE TestResult(test, "fail", Some(all_variable_names), None,
                        Some(expected_vars \ all_variable_names),
                        Some(all_variable_names \ expected_vars))

MSG_Unable == "Unable to fetch value"

\* lines 426-430 without the two strip() calls
execute_single_variable_test_no_strip(frame, test) ==
    LET fetched == get_variable_value(frame, test.variable)
    IN  IF IsNone(fetched)
        THEN TestResult(test, "error", None, Some(MSG_Unable), None, None)
        ELSE IF Get(fetched) = test.expected_value
             THEN TestResult(test, "pass", Some(Get(fetched)), None, None, None)
             ELSE TestResult(test, "fail", Some(Get(fetched)), None, None, None)

execute_single_variable_test(frame, test) ==
    LET fetched == get_variable_value(frame, test.variable)
    IN  IF IsNone(fetched)
        THEN TestResult(test, "error", None, Some(MSG_Unable), None, None)
        ELSE LET actual_value == strip(Get(fetched))
                 expected_value == strip(test.expected_value)
             IN  IF actual_value = expected_value
                 THEN TestResult(test, "pass", Some(actual_value), None, None, None)
                 ELSE TestResult(test, "fail", Some(actual_value), None, None, None)

\* line 391 indented into the else of line 389: the result of an
\* "all variables" check is not appended
execute_test_case_append_in_else(frame, test_case, all_variable_names) ==
    LET named == SelectSeq(test_case.tests, LAMBDA t : t.variable # ALL_VARIABLES)
    IN  CaseResult(test_case, get_current_function_name(frame),
            [j \in 1..Len(named) |-> execute_single_variable_test(frame, named[j])])

\* lines 384-394
execute_test_case(frame, test_case, all_variable_names) ==
    CaseResult(test_case, get_current_function_name(frame),
        [j \in 1..Len(test_case.tests) |->
            IF test_case.tests[j].variable = ALL_VARIABLES
            THEN execute_all_variables_test(test_case.tests[j], all_variable_names)
            ELSE execute_single_variable_test(frame, test_case.tests[j])])

-----------------------------------------------------------------------------
(***************************************************************************)
(* The inputs of a run.  A block is the list of <<variable, expected       *)
(* value>> annotations under one "// Expected:" marker; BuildCases gives   *)
(* the TestCases parse_expected_values makes of a file whose blocks are    *)
(* separated by one line of code: the marker on line first_line, one       *)
(* annotation per following line.                                          *)
(***************************************************************************)

NAME_a == <<"a">>
NAME_b == <<"b">>
NAME_x == <<"x">>

CheckAll == <<ALL_VARIABLES, <<"a", " ", "x">> >>
CheckX   == <<NAME_x, <<"5">> >>

Blocks == {<<>>, <<CheckAll>>, <<CheckX>>, <<CheckAll, CheckX>>}

RECURSIVE BuildCases(_, _)
BuildCases(blocks, first_line) ==
    IF blocks = <<>>
    THEN <<>>
    ELSE LET b == Head(blocks)
             n == Len(b)
             tests == [j \in 1..n |-> Test(first_line + j, b[j][1], b[j][2])]
         IN  <<TestCase(first_line, first_line + n, tests)>>
                 \o BuildCases(Tail(blocks), first_line + n + 2)

Files == UNION {[1..n -> Blocks] : n \in 0..MaxCases}

(***************************************************************************)
(* What the backend shows when the process is stopped: the function and    *)
(* the variables of frame 0.                                               *)
(***************************************************************************)

IntValue(digits) == SBValue(TRUE, <<"i", "n", "t">>, Some(digits), None, None, 0, None)

\* a string without summary whose bytes the backend does not read: the answer
\* of ReadCStringFromMemory is returned as it is (line 197), here None
UnreadableString ==
    SBValue(TRUE, <<"s", "t", "r", "i", "n", "g">>, None, None, Some(<<"0", "x", "1">>), 1, None)

Frame(locals) == [function |-> "main", locals |-> locals]

Frames ==
    { Frame((NAME_a :> IntValue(<<"1">>)) @@ (NAME_x :> IntValue(<<"5">>))),
      Frame((NAME_a :> IntValue(<<"1">>)) @@ (NAME_x :> IntValue(<<"6">>))),
      Frame((NAME_a :> IntValue(<<"1">>)) @@ (NAME_x :> UnreadableString)),
      Frame((NAME_a :> IntValue(<<"1">>))),
      Frame((NAME_a :> IntValue(<<"1">>)) @@ (NAME_b :> IntValue(<<"2">>)) @@ (NAME_x :> IntValue(<<"5">>))) }

NoException == [type |-> "none", msg |-> ""]
Exception(msg) == [type |-> "Exception", msg |-> msg]
KeyboardInterrupt == [type |-> "KeyboardInterrupt", msg |-> ""]

MSG_Target == "Failed to create target"
MSG_Breakpoint == "Failed to set breakpoint"
MSG_NotStopped == "Process didn't stop at breakpoint"
MSG_Command == "exception while a console command is handled"

NoHistory ==
    [setup_failed |-> FALSE,      \* debugger.setup raised
     bp_set |-> {},               \* cases whose breakpoint was set
     evaluated |-> {},            \* cases whose checks were evaluated
     unresolved |-> {},           \* <<case, check>> whose variable lookup gave an invalid value
     consoles |-> {},             \* cases after which the console was entered
     fatal_at |-> 0,              \* the case whose breakpoint was invalid or whose process
                                  \* was not stopped after launch/continue, 0 if none
     abort_at |-> 0,              \* the case whose console returned false, 0 if none
     sigint |-> "none",           \* where SIGINT hit the last console: "input", "command"
     console_end |-> "none",      \* how the last console was left: "quit", "eof", "sigint", "raise"
     console_exit |-> "none",     \* what the last run_console did: "true", "false", "raised"
     events |-> <<>>]             \* what execute_tests did for the current case, in order

\* run_tests line 317-318: the debugger is constructed (synchronous), the files are parsed
Init ==
    /\ test_cases \in {BuildCases(f, 1) : f \in Files}
    /\ interactive \in BOOLEAN
    /\ pc = "setup"
    /\ idx = 1
    /\ results = TestResults(0, 0, 0, <<>>)
    /\ breakpoint = 0
    /\ target = "none"
    /\ process = "none"
    /\ is_async = FALSE
    /\ breakpoints = {}
    /\ destroyed = FALSE
    /\ continue_tests = TRUE
    /\ sigint_handler = "caller"
    /\ streams = "caller"
    /\ exc = NoException
    /\ exit_status = "none"
    /\ errors_logged = <<>>
    /\ reported = <<>>
    /\ hist = NoHistory
    /\ arg = <<>>
    /\ ret = <<>>

-----------------------------------------------------------------------------
(* LLDBDebugger: the session *)

\* the state a launched or continued process is seen in when the call returns:
\* a synchronous call returns once the process stopped or exited
Resumed(async) ==
    IF async THEN {"running", "stopped", "exited"} ELSE {"stopped", "exited"}

\* GetState() of a process last seen in state s: a running process stops or exits by itself
Observed(s) ==
    IF s = "running" THEN {"running", "stopped", "exited"} ELSE {s}

\* bool(self.process): None and an invalid SBProcess are false
HasProcess(p) == p \notin {"none", "invalid"}

\* debugger.setup()
Setup ==
    /\ pc = "setup"
    /\ \/ /\ target' = "valid"
          /\ pc' = "loop"
          /\ UNCHANGED <<exc, hist>>
       \/ /\ target' = "invalid"
          /\ exc' = Exception(MSG_Target)
          /\ hist' = [hist EXCEPT !.setup_failed = TRUE]
          /\ pc' = "except"
    /\ UNCHANGED <<runVars, idx, results, breakpoint, process, is_async, breakpoints,
                   destroyed, consoleVars, outVars, fnVars>>

\* execute_tests: the next test_case of the for loop, and debugger.set_breakpoint;
\* the ids of the breakpoints follow the cases, no other breakpoint being created
SetBreakpoint ==
    /\ pc = "loop"
    /\ idx <= Len(test_cases)
    /\ \E valid \in BOOLEAN :
          IF valid
          THEN /\ breakpoint' = idx
               /\ breakpoints' = breakpoints \cup {idx}
               /\ hist' = [hist EXCEPT !.bp_set = @ \cup {idx}, !.events = <<"set">>]
               /\ pc' = "run"
               /\ UNCHANGED exc
          ELSE /\ exc' = Exception(MSG_Breakpoint)
               /\ hist' = [hist EXCEPT !.fatal_at = idx, !.events = <<>>]
               /\ pc' = "except"
               /\ UNCHANGED <<breakpoint, breakpoints>>
    /\ UNCHANGED <<runVars, idx, results, target, process, is_async, destroyed,
                   consoleVars, outVars, fnVars>>

\* run_to_breakpoint that takes an exited process for one at its breakpoint
reached_breakpoint_or_exited(state) == state \in {"stopped", "exited"}

\* run_to_breakpoint without lines 92-93
reached_breakpoint_unchecked(state) == TRUE

\* whether run_to_breakpoint returns rather than raises
reached_breakpoint(state) == state = "stopped"

\* debugger.run_to_breakpoint()
RunToBreakpoint ==
    /\ pc = "run"
    /\ \E s \in (IF ~HasProcess(process) THEN Resumed(is_async) \cup {"invalid"}
                 ELSE IF process = "stopped" THEN Resumed(is_async)
                 ELSE Observed(process)) :
          /\ process' = s
          /\ hist' = [hist EXCEPT !.fatal_at = IF s = "stopped" THEN @ ELSE idx,
                                   !.events = Append(@, "run")]
          /\ IF reached_breakpoint(s)
             THEN /\ pc' = "inspect"
                  /\ UNCHANGED exc
             ELSE /\ exc' = Exception(MSG_NotStopped)
                  /\ pc' = "except"
    /\ UNCHANGED <<runVars, idx, results, breakpoint, target, is_async, breakpoints,
                   destroyed, consoleVars, outVars, fnVars>>

count_pass(rs) == Cardinality({j \in 1..Len(rs) : rs[j].status = "pass"})

count_not_pass(rs) == Cardinality({j \in 1..Len(rs) : rs[j].status # "pass"})

\* lines 353-356 with the total counting the cases, not their checks
add_case_result_counting_cases(res, case_result) ==
    [total |-> res.total + 1,
     passed |-> res.passed + count_pass(case_result.results),
     failed |-> res.failed + count_not_pass(case_result.results),
     case_results |-> Append(res.case_results, case_result)]

\* execute_tests lines 353-356
add_case_result(res, case_result) ==
    TestResults(res.total + Len(case_result.results),
                res.passed + count_pass(case_result.results),
                res.failed + count_not_pass(case_result.results),
                Append(res.case_results, case_result))

\* the checks of a case whose variable the frame does not resolve
unresolved_checks(frame, test_case) ==
    {j \in 1..Len(test_case.tests) :
        /\ test_case.tests[j].variable # ALL_VARIABLES
        /\ test_case.tests[j].variable \notin DOMAIN frame.locals}

\* execute_tests lines 347-361: the function name and the names in scope are
\* captured, the checks are evaluated and counted
ExecuteTestCase ==
    /\ pc = "inspect"
    /\ \E frame \in Frames :
          LET test_case == test_cases[idx]
              all_variable_names == get_all_variable_names(frame)
              case_result == execute_test_case(frame, test_case, all_variable_names)
          IN  /\ results' = add_case_result(results, case_result)
              /\ hist' = [hist EXCEPT
                           !.evaluated = @ \cup {idx},
                           !.unresolved = @ \cup {<<idx, j>> : j \in unresolved_checks(frame, test_case)},
                           !.events = @ \o <<"capture", "evaluate">>]
    /\ pc' = "after_case"
    /\ UNCHANGED <<runVars, idx, breakpoint, dbgVars, consoleVars, exc, outVars, fnVars>>

\* execute_tests line 363
enters_console(flag, case_result) ==
    flag /\ \E j \in 1..Len(case_result.results) : case_result.results[j].status # "pass"

\* run_console lines 234-256: the streams, the async mode and the handler are set
EnterConsole ==
    /\ pc = "after_case"
    /\ enters_console(interactive, results.case_results[Len(results.case_results)])
    /\ streams' = "terminal"
    /\ is_async' = TRUE
    /\ continue_tests' = TRUE
    /\ sigint_handler' = "console"
    /\ hist' = [hist EXCEPT !.consoles = @ \cup {idx}, !.sigint = "none",
                            !.console_end = "none", !.console_exit = "none",
                            !.events = Append(@, "console")]
    /\ pc' = "console_input"
    /\ UNCHANGED <<runVars, idx, results, breakpoint, target, process, breakpoints,
                   destroyed, exc, outVars, fnVars>>

\* line 379 indented into the body of the if of line 363: a case that does
\* not enter the console keeps its breakpoint
SkipConsole_no_delete ==
    /\ pc = "after_case"
    /\ ~(interactive /\ \E j \in 1..Len(results.case_results[Len(results.case_results)].results) :
            results.case_results[Len(results.case_results)].results[j].status # "pass")
    /\ idx' = idx + 1
    /\ pc' = "loop"
    /\ UNCHANGED <<runVars, results, breakpoint, dbgVars, consoleVars, exc, outVars,
                   hist, fnVars>>

\* execute_tests line 363 is false: on to line 379
SkipConsole ==
    /\ pc = "after_case"
    /\ ~enters_console(interactive, results.case_results[Len(results.case_results)])
    /\ pc' = "delete"
    /\ UNCHANGED <<runVars, idx, results, breakpoint, dbgVars, consoleVars, exc, outVars,
                   hist, fnVars>>

\* run_console lines 262-273: input() gives 'quit', or raises EOFError
ConsoleQuit ==
    /\ pc = "console_input"
    /\ \E how \in {"quit", "eof"} : hist' = [hist EXCEPT !.console_end = how]
    /\ pc' = "console_finally"
    /\ UNCHANGED <<runVars, idx, results, breakpoint, dbgVars, consoleVars, exc, outVars,
                   fnVars>>

\* keyboard_interrupt_handler while input() waits: the KeyboardInterrupt is
\* caught at line 267
ConsoleSigintAtInput ==
    /\ pc = "console_input"
    /\ sigint_handler = "console"
    /\ continue_tests' = FALSE
    /\ hist' = [hist EXCEPT !.sigint = "input", !.console_end = "sigint"]
    /\ pc' = "console_finally"
    /\ UNCHANGED <<runVars, idx, results, breakpoint, dbgVars, sigint_handler, streams,
                   exc, outVars, fnVars>>

\* input() gives another command: interpreter.HandleCommand is entered
ConsoleCommand ==
    /\ pc = "console_input"
    /\ pc' = "console_command"
    /\ UNCHANGED <<runVars, idx, results, breakpoint, dbgVars, consoleVars, exc, outVars,
                   hist, fnVars>>

\* lines 276-278 pass: the command may have resumed, stopped or killed the
\* process and deleted breakpoints; continue_tests is still true at line 259
ConsoleCommandDone ==
    /\ pc = "console_command"
    /\ \E s \in (IF HasProcess(process) THEN {"running", "stopped", "exited"} ELSE {process}) :
          process' = s
    /\ \E bs \in {breakpoints, {}} : breakpoints' = bs
    /\ pc' = "console_input"
    /\ UNCHANGED <<runVars, idx, results, breakpoint, target, is_async, destroyed,
                   consoleVars, exc, outVars, hist, fnVars>>

\* keyboard_interrupt_handler while a command is handled (lines 270-278):
\* the KeyboardInterrupt it raises is outside the try of lines 261-268
ConsoleSigintInCommand ==
    /\ pc = "console_command"
    /\ sigint_handler = "console"
    /\ continue_tests' = FALSE
    /\ hist' = [hist EXCEPT !.sigint = "command", !.console_end = "raise"]
    /\ exc' = KeyboardInterrupt
    /\ pc' = "console_finally"
    /\ UNCHANGED <<runVars, idx, results, breakpoint, dbgVars, sigint_handler, streams,
                   outVars, fnVars>>

\* lines 276-278 raise
ConsoleCommandRaises ==
    /\ pc = "console_command"
    /\ exc' = Exception(MSG_Command)
    /\ hist' = [hist EXCEPT !.console_end = "raise"]
    /\ pc' = "console_finally"
    /\ UNCHANGED <<runVars, idx, results, breakpoint, dbgVars, consoleVars, outVars, fnVars>>

\* lines 281-282 after the loop instead of in a finally clause: an exception
\* passes them by
ConsoleFinally_after_loop ==
    /\ pc = "console_finally"
    /\ sigint_handler' = IF exc.type = "none" THEN "caller" ELSE sigint_handler
    /\ streams' = IF exc.type = "none" THEN "caller" ELSE streams
    /\ hist' = [hist EXCEPT !.console_exit =
                    IF exc.type # "none" THEN "raised"
                    ELSE IF continue_tests THEN "true" ELSE "false"]
    /\ pc' = IF exc.type = "none" THEN "console_return"
             ELSE IF exc.type = "Exception" THEN "except"
             ELSE "finally"
    /\ UNCHANGED <<runVars, idx, results, breakpoint, dbgVars, continue_tests, exc, outVars,
                   fnVars>>

\* run_console lines 280-284: the finally clause, then the return or the
\* exception leaves run_console; execute_tests does not catch, run_tests
\* catches Exception only
ConsoleFinally ==
    /\ pc = "console_finally"
    /\ sigint_handler' = "caller"
    /\ streams' = "caller"
    /\ hist' = [hist EXCEPT !.console_exit =
                    IF exc.type # "none" THEN "raised"
                    ELSE IF continue_tests THEN "true" ELSE "false"]
    /\ pc' = IF exc.type = "none" THEN "console_return"
             ELSE IF exc.type = "Exception" THEN "except"
             ELSE "finally"
    /\ UNCHANGED <<runVars, idx, results, breakpoint, dbgVars, continue_tests, exc, outVars,
                   fnVars>>

\* lines 367-369 without the break
ConsoleAbort_no_break ==
    /\ pc = "console_return"
    /\ ~continue_tests
    /\ hist' = [hist EXCEPT !.abort_at = idx]
    /\ pc' = "delete"
    /\ UNCHANGED <<runVars, idx, results, breakpoint, dbgVars, consoleVars, exc, outVars,
                   fnVars>>

\* execute_tests lines 367-369
ConsoleAbort ==
    /\ pc = "console_return"
    /\ ~continue_tests
    /\ hist' = [hist EXCEPT !.abort_at = idx]
    /\ pc' = "report"
    /\ UNCHANGED <<runVars, idx, results, breakpoint, dbgVars, consoleVars, exc, outVars,
                   fnVars>>

\* execute_tests lines 372-377
NormalizeProcess ==
    /\ pc = "console_return"
    /\ continue_tests
    /\ \E seen \in Observed(process) :
          IF seen = "running"
          THEN process' \in Resumed(is_async)
          ELSE IF seen = "exited"
               THEN process' \in Resumed(is_async) \cup {"invalid"}
               ELSE process' = seen
    /\ pc' = "delete"
    /\ UNCHANGED <<runVars, idx, results, breakpoint, target, is_async, breakpoints,
                   destroyed, consoleVars, exc, outVars, hist, fnVars>>

\* execute_tests line 379, and the loop goes on
DeleteBreakpoint ==
    /\ pc = "delete"
    /\ breakpoints' = breakpoints \ {breakpoint}
    /\ idx' = idx + 1
    /\ hist' = [hist EXCEPT !.events = Append(@, "delete")]
    /\ pc' = "loop"
    /\ UNCHANGED <<runVars, results, breakpoint, target, process, is_async, destroyed,
                   consoleVars, exc, outVars, fnVars>>

\* execute_tests line 381: the loop is over
ReturnResults ==
    /\ pc = "loop"
    /\ idx > Len(test_cases)
    /\ pc' = "report"
    /\ UNCHANGED <<runVars, idx, results, breakpoint, dbgVars, consoleVars, exc, outVars,
                   hist, fnVars>>

\* run_tests line 327
PrintTestResults ==
    /\ pc = "report"
    /\ reported' = <<results>>
    /\ pc' = "exit_check"
    /\ UNCHANGED <<runVars, idx, results, breakpoint, dbgVars, consoleVars, exc,
                   exit_status, errors_logged, hist, fnVars>>

\* line 329 comparing the number of cases with the passed checks
some_failed_by_cases(res) == Len(res.case_results) # res.passed

\* run_tests line 329
some_failed(res) == res.total # res.passed

\* run_tests lines 329-330: os._exit(1) ends the process at once, no finally
\* clause runs
ExitFailed ==
    /\ pc = "exit_check"
    /\ some_failed(results)
    /\ exit_status' = "1"
    /\ pc' = "exited"
    /\ UNCHANGED <<runVars, idx, results, breakpoint, dbgVars, consoleVars, exc,
                   errors_logged, reported, hist, fnVars>>

AllPassed ==
    /\ pc = "exit_check"
    /\ ~some_failed(results)
    /\ pc' = "finally"
    /\ UNCHANGED <<runVars, idx, results, breakpoint, dbgVars, consoleVars, exc, outVars,
                   hist, fnVars>>

\* run_tests lines 332-333
LogError ==
    /\ pc = "except"
    /\ errors_logged' = Append(errors_logged, exc.msg)
    /\ exc' = NoException
    /\ pc' = "finally"
    /\ UNCHANGED <<runVars, idx, results, breakpoint, dbgVars, consoleVars, exit_status,
                   reported, hist, fnVars>>

\* run_tests lines 335-336 and debugger.cleanup(); then run_tests and main
\* return and the interpreter exits, with the KeyboardInterrupt if one is
\* in flight
Cleanup ==
    /\ pc = "finally"
    /\ process' = IF HasProcess(process) THEN "killed" ELSE process
    /\ destroyed' = TRUE
    /\ exit_status' = IF exc.type = "KeyboardInterrupt" THEN "KeyboardInterrupt" ELSE "0"
    /\ pc' = "exited"
    /\ UNCHANGED <<runVars, idx, results, breakpoint, target, is_async, breakpoints,
                   consoleVars, exc, errors_logged, reported, hist, fnVars>>

Next ==
    \/ Setup
    \/ SetBreakpoint
    \/ RunToBreakpoint
    \/ ExecuteTestCase
    \/ EnterConsole
    \/ SkipConsole
    \/ ConsoleQuit
    \/ ConsoleSigintAtInput
    \/ ConsoleCommand
    \/ ConsoleCommandDone
    \/ ConsoleSigintInCommand
    \/ ConsoleCommandRaises
    \/ ConsoleFinally
    \/ ConsoleAbort
    \/ NormalizeProcess
    \/ DeleteBreakpoint
    \/ ReturnResults
    \/ PrintTestResults
    \/ ExitFailed
    \/ AllPassed
    \/ LogError
    \/ Cleanup

Spec == Init /\ [][Next]_vars

-----------------------------------------------------------------------------
(***************************************************************************)
(* execute_all_variables_test on its own: an expected value as the parser  *)
(* leaves it (stripped, line 305) against a set of names in scope.         *)
(***************************************************************************)

Chars == {"a", "b", "c", " "}

NamePool == {<<"a">>, <<"b">>, <<"c">>, <<"a", "b">>}

Strs(n) == UNION {[1..k -> Chars] : k \in 0..n}

ExpectedValues == {s \in Strs(MaxLen) : strip(s) = s}

\* the variables of the run, at rest
NoRun ==
    /\ test_cases = <<>>
    /\ interactive = FALSE
    /\ idx = 1
    /\ results = TestResults(0, 0, 0, <<>>)
    /\ breakpoint = 0
    /\ target = "none"
    /\ process = "none"
    /\ is_async = FALSE
    /\ breakpoints = {}
    /\ destroyed = FALSE
    /\ continue_tests = TRUE
    /\ sigint_handler = "caller"
    /\ streams = "caller"
    /\ exc = NoException
    /\ exit_status = "none"
    /\ errors_logged = <<>>
    /\ reported = <<>>
    /\ hist = NoHistory

InitAllVars ==
    /\ NoRun
    /\ pc = "call"
    /\ arg \in ExpectedValues \X (SUBSET NamePool)
    /\ ret = <<>>

CallAllVariablesTest ==
    /\ pc = "call"
    /\ ret' = <<execute_all_variables_test(Test(1, ALL_VARIABLES, arg[1]), arg[2])>>
    /\ pc' = "return"
    /\ UNCHANGED <<runVars, idx, results, breakpoint, dbgVars, consoleVars, exc, outVars,
                   hist, arg>>

NextAllVars == CallAllVariablesTest

SpecAllVars == InitAllVars /\ [][NextAllVars]_vars

-----------------------------------------------------------------------------
(* Properties *)

RECURSIVE SumChecks(_)
SumChecks(case_results) ==
    IF Len(case_results) = 0
    THEN 0
    ELSE Len(case_results[1].results) + SumChecks(Tail(case_results))

\* the statuses of all the checks in a TestResults
AllStatuses(res) ==
    UNION {{res.case_results[c].results[j].status : j \in 1..Len(res.case_results[c].results)} :
              c \in 1..Len(res.case_results)}

(* C1: in every state of a run (so after every iteration of the case loop  *)
(* and on the return of execute_tests, aborted or not, with zero cases or  *)
(* more), total = passed + failed, and total is the number of check        *)
(* results in case_results.                                                *)
C1_TotalsAgree ==
    /\ results.total = results.passed + results.failed
    /\ results.total = SumChecks(results.case_results)

\* execute_tests returned after an abort in the second case, checks passed and failed
C1_Witness ==
    /\ pc = "report"
    /\ hist.abort_at = 2
    /\ results.passed >= 1
    /\ results.failed >= 2

(* C2: when the process has exited, by whatever path, debugger.cleanup()   *)
(* has run: the debugger is destroyed and no debuggee process is left.     *)
C2_CleanupBeforeExit ==
    exit_status # "none" => destroyed /\ process \in {"none", "invalid", "killed"}

(* C3: when the process exits after execute_tests returned a summary, the  *)
(* exit status is 0 if every check of the summary has status pass (so also *)
(* with no check at all), and 1 otherwise.                                 *)
C3_ExitStatus ==
    (pc = "exited" /\ Len(reported) = 1) =>
        exit_status = IF AllStatuses(results) \subseteq {"pass"} THEN "0" ELSE "1"

\* a run whose checks all passed has exited
C3_Witness ==
    /\ pc = "exited"
    /\ Len(reported) = 1
    /\ results.total >= 2
    /\ exit_status = "0"

(* C4: when debugger.setup raised, the run ends with the error logged      *)
(* once, no test case executed, and exit status 1.                         *)
C4_SetupFailureExitsOne ==
    (hist.setup_failed /\ pc = "exited") =>
        /\ Len(errors_logged) = 1
        /\ hist.bp_set = {} /\ hist.evaluated = {}
        /\ exit_status = "1"

(* C5: once the console entered after case k has returned false, no        *)
(* breakpoint is set and no check evaluated for a case after k,            *)
(* execute_tests has returned, case_results holds the outcomes of the      *)
(* cases 1..k, and that summary is what the reporter prints.               *)
C5_AbortKeepsSummary ==
    hist.abort_at # 0 =>
        /\ hist.bp_set \subseteq 1..hist.abort_at
        /\ hist.evaluated \subseteq 1..hist.abort_at
        /\ pc \in {"report", "exit_check", "exited"}
        /\ Len(results.case_results) = hist.abort_at
        /\ \A k \in 1..hist.abort_at : results.case_results[k].test_case = test_cases[k]
        /\ pc # "report" => reported = <<results>>

\* the console aborted after the first of two cases and the summary was printed
C5_Witness ==
    /\ hist.abort_at = 1
    /\ Len(test_cases) = 2
    /\ Len(reported) = 1

(* C6: a console that a SIGINT hit, while it waited for input or while it  *)
(* handled a command, is left by run_console returning false, not by an    *)
(* exception; a console left by quit or end-of-input returns true.         *)
C6_SigintReturnsFalse ==
    hist.console_exit # "none" =>
        /\ hist.sigint # "none" => hist.console_exit = "false"
        /\ hist.console_end \in {"quit", "eof"} => hist.console_exit = "true"

(* C7: a named-variable check whose variable the frame does not resolve    *)
(* has status error and a message; the other checks of the case have       *)
(* their results too.                                                      *)
C7_UnresolvedIsError ==
    \A u \in hist.unresolved :
        LET case_result == results.case_results[u[1]]
        IN  /\ Len(case_result.results) = Len(test_cases[u[1]].tests)
            /\ case_result.results[u[2]].status = "error"
            /\ ~IsNone(case_result.results[u[2]].message)

(* C8: once the breakpoint of case k could not be set, or the process was  *)
(* not stopped after the launch or continue of case k, no check of case k  *)
(* or of a later case is evaluated, no case result exists for them, the    *)
(* exception is on its way to run_tests' handler or was logged there with  *)
(* its message, and no later breakpoint is set.                            *)
C8_FatalErrorStopsRun ==
    hist.fatal_at # 0 =>
        /\ hist.evaluated = 1..(hist.fatal_at - 1)
        /\ Len(results.case_results) = hist.fatal_at - 1
        /\ hist.bp_set \subseteq 1..hist.fatal_at
        /\ pc \in {"except", "finally", "exited"}
        /\ pc = "except" => exc \in {Exception(MSG_Breakpoint), Exception(MSG_NotStopped)}
        /\ pc # "except" => errors_logged \in {<<MSG_Breakpoint>>, <<MSG_NotStopped>>}

\* the process of the second case did not stop, and the run ended with the error logged
C8_Witness ==
    /\ hist.fatal_at = 2
    /\ 2 \in hist.bp_set
    /\ pc = "exited"
    /\ errors_logged = <<MSG_NotStopped>>

(* C9: at the head of the case loop no breakpoint of an earlier case       *)
(* exists, so when the breakpoint of a case is set it is the only one:     *)
(* at most one breakpoint set by execute_tests exists at any time, that of *)
(* the current case.                                                       *)
C9_OneBreakpoint ==
    /\ breakpoints \subseteq {idx}
    /\ pc = "loop" => breakpoints = {}
    /\ pc = "run" => breakpoints = {idx}

\* the breakpoint of the second case is set after the console ran for the first
C9_Witness ==
    /\ pc = "run"
    /\ idx = 2
    /\ breakpoints = {2}
    /\ hist.consoles = {1}

\* the whitespace-separated names of s: its maximal runs of non-whitespace
Names(s) ==
    {SubSeq(s, a, b) : <<a, b>> \in
        {ab \in (1..Len(s)) \X (1..Len(s)) :
            /\ ab[1] <= ab[2]
            /\ \A k \in ab[1]..ab[2] : s[k] \notin Whitespace
            /\ ab[1] = 1 \/ s[ab[1] - 1] \in Whitespace
            /\ ab[2] = Len(s) \/ s[ab[2] + 1] \in Whitespace}}

(* C10: an 'all variables' check passes exactly if the names of its        *)
(* expected value are the names in scope; otherwise it fails with          *)
(* missing = expected - actual and extra = actual - expected, disjoint and *)
(* not both empty; 'a b c' against {a, b} fails with missing {c} and no    *)
(* extra.                                                                  *)
C10_AllVariables ==
    Len(ret) = 1 =>
        LET result == ret[1]
            expected == Names(arg[1])
            actual == arg[2]
        IN  /\ result.status \in {"pass", "fail"}
            /\ result.status = "pass" <=> expected = actual
            /\ result.status = "fail" =>
                  /\ Get(result.missing) = expected \ actual
                  /\ Get(result.extra) = actual \ expected
                  /\ Get(result.missing) \cap Get(result.extra) = {}
                  /\ Get(result.missing) \cup Get(result.extra) # {}
            /\ (arg[1] = <<"a", " ", "b", " ", "c">> /\ actual = {<<"a">>, <<"b">>}) =>
                  /\ result.status = "fail"
                  /\ Get(result.missing) = {<<"c">>}
                  /\ Get(result.extra) = {}

\* 'a b c' was checked against {a, b}
C10_Witness ==
    /\ Len(ret) = 1
    /\ arg = << <<"a", " ", "b", " ", "c">>, {<<"a">>, <<"b">>} >>
    /\ ret[1].status = "fail"

-----------------------------------------------------------------------------
(***************************************************************************)
(* execute_single_variable_test on its own: an expected value as the       *)
(* parser leaves it (stripped, line 305) against a variable x whose        *)
(* GetValue() is any short text.                                           *)
(***************************************************************************)

ValueChars == {"a", "A", " "}

Values == UNION {[1..k -> ValueChars] : k \in 0..MaxValueLen}

InitSingleVar ==
    /\ NoRun
    /\ pc = "call"
    /\ arg \in {s \in Values : strip(s) = s} \X Values
    /\ ret = <<>>

CallSingleVariableTest ==
    /\ pc = "call"
    /\ ret' = <<execute_single_variable_test(Frame(NAME_x :> IntValue(arg[2])),
                                             Test(1, NAME_x, arg[1]))>>
    /\ pc' = "return"
    /\ UNCHANGED <<runVars, idx, results, breakpoint, dbgVars, consoleVars, exc, outVars,
                   hist, arg>>

NextSingleVar == CallSingleVariableTest

SpecSingleVar == InitSingleVar /\ [][NextSingleVar]_vars

\* t is s without the whitespace at its two ends
IsTrimOf(t, s) ==
    \E a, b \in 0..Len(s) :
        /\ a + b <= Len(s)
        /\ t = SubSeq(s, a + 1, Len(s) - b)
        /\ \A k \in 1..a : s[k] \in Whitespace
        /\ \A k \in (Len(s) - b + 1)..Len(s) : s[k] \in Whitespace
        /\ Len(t) > 0 => t[1] \notin Whitespace /\ t[Len(t)] \notin Whitespace

Trimmed(s) ==
    CHOOSE t \in {SubSeq(s, i, j) : i \in 1..(Len(s) + 1), j \in 0..Len(s)} : IsTrimOf(t, s)

(* C11: a named-variable check whose value was obtained passes exactly if  *)
(* the rendered and the expected value are equal once the whitespace at    *)
(* their ends is removed (nothing else is ignored, case included);         *)
(* otherwise it fails, the trimmed rendered value being recorded as        *)
(* actual; equal values never give fail or error.                          *)
C11_SingleVariable ==
    Len(ret) = 1 =>
        LET result == ret[1]
            expected == arg[1]
            rendered == arg[2]
        IN  /\ result.status \in {"pass", "fail"}
            /\ result.status = "pass" <=> Trimmed(rendered) = Trimmed(expected)
            /\ result.actual = Some(Trimmed(rendered))
            /\ rendered = expected => result.status = "pass"

\* ' a ' was checked against the expected value 'a'
C11_Witness ==
    /\ Len(ret) = 1
    /\ arg = << <<"a">>, <<" ", "a", " ">> >>
    /\ ret[1].status = "pass"

-----------------------------------------------------------------------------
(***************************************************************************)
(* parse_expected_values on its own, for one source file: content is what  *)
(* readlines() gave.  The index i counts from 0 as in the code, so         *)
(* content[i] of the code is content[i + 1] here.                          *)
(***************************************************************************)

MARKER == <<"/", "/", " ", "E", "x", "p", "e", "c", "t", "e", "d", ":">>

COMMENT == <<"/", "/">>

\* s.split(c, 1)
split_once(s, c) ==
    IF \E k \in 1..Len(s) : s[k] = c
    THEN LET first == CHOOSE k \in 1..Len(s) : s[k] = c /\ \A m \in 1..(k - 1) : s[m] # c
         IN  <<SubSeq(s, 1, first - 1), SubSeq(s, first + 1, Len(s))>>
    ELSE <<s>>

\* lines 299-307: the annotations from content[i] on; gives <<i, tests>> as
\* they are when the inner loop is left
RECURSIVE parse_block(_, _, _)
parse_block(content, i, tests) ==
    IF i < Len(content)
    THEN LET line == strip(content[i + 1])
         IN  IF ~startswith(line, COMMENT)
             THEN <<i, tests>>
             ELSE LET parts == split_once(strip(lstrip_chars(line, {"/"})), ":")
                  IN  parse_block(content, i + 1,
                          IF Len(parts) = 2
                          THEN Append(tests, Test(i + 1, strip(parts[1]), strip(parts[2])))
                          ELSE tests)
    ELSE <<i, tests>>

\* lines 293-312 with end_line = i + 1 in line 308
RECURSIVE parse_lines_end_after(_, _)
parse_lines_end_after(content, i) ==
    IF i < Len(content)
    THEN IF startswith(strip(content[i + 1]), MARKER)
         THEN LET block == parse_block(content, i + 1, <<>>)
              IN  <<TestCase(i + 1, block[1] + 1, block[2])>>
                      \o parse_lines_end_after(content, block[1])
         ELSE parse_lines_end_after(content, i + 1)
    ELSE <<>>

\* lines 293-312: the test cases from content[i] on
RECURSIVE parse_lines(_, _)
parse_lines(content, i) ==
    IF i < Len(content)
    THEN IF startswith(strip(content[i + 1]), MARKER)
         THEN LET start_line == i + 1
                  block == parse_block(content, i + 1, <<>>)
                  end_line == block[1]
              IN  <<TestCase(start_line, end_line, block[2])>> \o parse_lines(content, end_line)
         ELSE parse_lines(content, i + 1)
    ELSE <<>>

parse_expected_values(content) == parse_lines(content, 0)

\* the lines of the files: a marker, annotations (one indented and with its
\* newline), a comment without ':', a line of code, an empty line
LinePool ==
    { MARKER,
      <<"/", "/", " ", "x", ":", " ", "5">>,
      <<"\t", "/", "/", " ", "a", ":", " ", "1", "\n">>,
      <<"/", "/", " ", "a", "l", "l", " ", "v", "a", "r", "i", "a", "b", "l", "e", "s", ":", " ", "a", " ", "x">>,
      <<"/", "/", " ", "n", "o", "t", "e">>,
      <<"x", " ", "=", " ", "5">>,
      <<>> }

Contents == UNION {[1..n -> LinePool] : n \in 0..MaxLines}

InitParse ==
    /\ NoRun
    /\ pc = "call"
    /\ arg \in Contents
    /\ ret = <<>>

CallParseExpectedValues ==
    /\ pc = "call"
    /\ ret' = <<parse_expected_values(arg)>>
    /\ pc' = "return"
    /\ UNCHANGED <<runVars, idx, results, breakpoint, dbgVars, consoleVars, exc, outVars,
                   hist, arg>>

NextParse == CallParseExpectedValues

SpecParse == InitParse /\ [][NextParse]_vars

\* line n (counted from 1) of content is a comment line
IsCommentLine(content, n) ==
    n \in 1..Len(content) /\ startswith(strip(content[n]), COMMENT)

\* the comment lines that follow line n of content without a gap
CommentLinesAfter(content, n) ==
    {m \in (n + 1)..Len(content) : \A k \in (n + 1)..m : IsCommentLine(content, k)}

(* C12 as claimed: in every parsed TestCase, end_line > start_line if it   *)
(* has a check, and end_line = start_line exactly if it has no check.      *)
C12_EmptyIffNoChecks ==
    Len(ret) = 1 =>
        \A c \in 1..Len(ret[1]) :
            /\ Len(ret[1][c].tests) >= 1 => ret[1][c].end_line > ret[1][c].start_line
            /\ ret[1][c].end_line = ret[1][c].start_line <=> Len(ret[1][c].tests) = 0

(* C12 as amended: in every parsed TestCase, end_line > start_line if it   *)
(* has a check, and end_line = start_line exactly if no comment line       *)
(* follows the marker line directly; end_line - start_line is the number   *)
(* of comment lines that follow it without a gap, with or without ':'.     *)
C12_EmptyIffNoCommentLine ==
    Len(ret) = 1 =>
        \A c \in 1..Len(ret[1]) :
            LET case == ret[1][c]
            IN  /\ Len(case.tests) >= 1 => case.end_line > case.start_line
                /\ case.end_line = case.start_line <=> ~IsCommentLine(arg, case.start_line + 1)
                /\ case.end_line - case.start_line
                       = Cardinality(CommentLinesAfter(arg, case.start_line))

\* a file with a block of one check, and a block of a comment without ':' only
C12_Witness ==
    /\ Len(ret) = 1
    /\ Len(ret[1]) = 2
    /\ Len(ret[1][1].tests) = 1 /\ ret[1][1].end_line = ret[1][1].start_line + 1
    /\ Len(ret[1][2].tests) = 0 /\ ret[1][2].end_line = ret[1][2].start_line + 1

\* the lines of content (counted from 1) that begin with the marker
MarkerLines(content) ==
    {n \in 1..Len(content) : startswith(strip(content[n]), MARKER)}

(* C17: every line that begins with the marker opens a block and none is   *)
(* parsed as a check: there are as many TestCases as marker lines, and no  *)
(* Test has the line number of a marker line.                              *)
C17_EveryMarkerOpensBlock ==
    Len(ret) = 1 =>
        /\ Len(ret[1]) = Cardinality(MarkerLines(arg))
        /\ \A c \in 1..Len(ret[1]) : \A j \in 1..Len(ret[1][c].tests) :
              ret[1][c].tests[j].line_number \notin MarkerLines(arg)

-----------------------------------------------------------------------------
(* the run as a whole: what is reported, restored and evaluated            *)

\* the <<case, check>> of the outcomes of res that are not a pass
NotPassed(res) ==
    UNION {{<<k, j>> : j \in {n \in 1..Len(res.case_results[k].results) :
                                res.case_results[k].results[n].status # "pass"}}
           : k \in 1..Len(res.case_results)}

(* C13: when a run in which at least one case completed has ended, the     *)
(* reporter has printed a summary, and every fail or error outcome the run *)
(* produced is in the per-case listing of that summary; this includes runs *)
(* ended by a console abort or by a fatal error in a later case.           *)
C13_FailuresReported ==
    pc = "exited" /\ Len(results.case_results) >= 1 =>
        \A u \in NotPassed(results) :
            /\ Len(reported) = 1
            /\ u[1] <= Len(reported[1].case_results)
            /\ reported[1].case_results[u[1]].results[u[2]]
                  = results.case_results[u[1]].results[u[2]]

(* C14: once run_console has been left, by quit, end of input, a SIGINT    *)
(* at the prompt, a SIGINT or an exception while a command was handled,    *)
(* the SIGINT handler and the streams are those of the caller again; they  *)
(* are the console's only while run_console is active.                     *)
C14_ConsoleRestores ==
    /\ hist.console_exit # "none" =>
          /\ hist.console_end \in {"quit", "eof", "sigint", "raise"}
          /\ sigint_handler = "caller"
          /\ streams = "caller"
    /\ pc \notin {"console_input", "console_command", "console_finally"} =>
          /\ sigint_handler = "caller"
          /\ streams = "caller"

\* a console was left by the exception of a command, with no SIGINT
C14_Witness ==
    /\ hist.console_exit = "raised"
    /\ hist.console_end = "raise"
    /\ hist.sigint = "none"
    /\ exc = Exception(MSG_Command)
    /\ streams = "caller"

(* C18: whenever run_to_breakpoint is about to launch or continue the      *)
(* process, for any case of the run, the debugger is in synchronous mode.  *)
C18_SynchronousRuns ==
    pc = "run" => ~is_async

(* C19: at every point of a run case_results holds one CaseResult for each *)
(* case whose checks were evaluated, these are the first cases of          *)
(* test_cases in their order, and the CaseResult of a case holds one       *)
(* TestResult for each of its checks, in the order of the checks.          *)
C19_ResultsFollowCases ==
    /\ Len(results.case_results) <= Len(test_cases)
    /\ hist.evaluated = 1..Len(results.case_results)
    /\ \A k \in 1..Len(results.case_results) :
          LET case_result == results.case_results[k]
          IN  /\ case_result.test_case = test_cases[k]
              /\ Len(case_result.results) = Len(test_cases[k].tests)
              /\ \A j \in 1..Len(case_result.results) :
                    case_result.results[j].test = test_cases[k].tests[j]

\* two cases were executed, the second with two checks of different kinds
C19_Witness ==
    /\ Len(results.case_results) = 2
    /\ Len(results.case_results[2].results) = 2
    /\ results.case_results[2].results[1].test.variable = ALL_VARIABLES
    /\ results.case_results[2].results[2].test.variable = NAME_x
    /\ pc = "report"

IsPrefix(s, t) == Len(s) <= Len(t) /\ s = SubSeq(t, 1, Len(s))

(* C20: the checks of a case are evaluated with the process stopped and    *)
(* the breakpoint of that case set and not yet deleted; for every case,    *)
(* what execute_tests does is in the order set breakpoint, run, capture    *)
(* function and names, evaluate checks, console if entered, delete         *)
(* breakpoint, up to where the case or the run ends.                       *)
C20_CaseOrder ==
    /\ pc = "inspect" =>
          /\ process = "stopped"
          /\ breakpoint = idx
          /\ idx \in breakpoints
          /\ idx \in hist.bp_set
    /\ \/ IsPrefix(hist.events, <<"set", "run", "capture", "evaluate", "delete">>)
       \/ IsPrefix(hist.events, <<"set", "run", "capture", "evaluate", "console", "delete">>)
    /\ idx \in hist.evaluated => "evaluate" \in set(hist.events)

\* the second case went through all the steps, the console among them
C20_Witness ==
    /\ hist.events = <<"set", "run", "capture", "evaluate", "console", "delete">>
    /\ idx = 3
    /\ pc = "loop"

(* C15: when run_to_breakpoint is invoked for the case that follows one    *)
(* whose console returned true, the process is not in the exited state:    *)
(* the normalization has stopped a running process and relaunched an       *)
(* exited one.                                                             *)
C15_NormalizedBeforeNextCase ==
    pc = "run" /\ idx - 1 \in hist.consoles /\ hist.console_exit = "true" =>
        process \notin {"exited", "invalid"}

-----------------------------------------------------------------------------
(***************************************************************************)
(* format_value on its own: a value of the debuggee as the backend shows   *)
(* it, and what format_value renders.                                      *)
(***************************************************************************)

MaxElems == 2        \* elements of an array or slice drawn for format_value

STR_long == <<"l", "o", "n", "g">>
STR_Point == <<"P", "o", "i", "n", "t">>
STR_string == <<"s", "t", "r", "i", "n", "g">>
STR_complex64 == <<"c", "o", "m", "p", "l", "e", "x", "6", "4">>

\* the child of a struct: a value with its member name
Named(var, name) == [var EXCEPT !.name = name]

LongValue(digits) == SBValue(TRUE, STR_long, Some(digits), None, None, 0, None)

StructValue(type_name, type_class, children) ==
    [SBValue(TRUE, type_name, None, None, None, 0, None)
        EXCEPT !.type_class = type_class, !.children = children]

\* a fixed-size array [N]T: its type is of the array class whatever T is
ArrayValue(element_type, element_class, children) ==
    [SBValue(TRUE, <<"[">> \o str_int(Len(children)) \o <<"]">> \o element_type,
             None, None, None, 0, None)
        EXCEPT !.type_class = "Array", !.element_type = element_type,
               !.element_class = element_class, !.children = children]

\* a slice []T: a struct of data, len and cap
SliceValue(element_type, elements) ==
    [SBValue(TRUE, <<"[", "]">> \o element_type, None, None,
             Some(<<"0", "x", "1">>), Len(elements), None)
        EXCEPT !.type_class = "Struct", !.children = elements]

ComplexValue(real, imag) ==
    StructValue(STR_complex64, "Builtin",
                <<Named(real, <<"r", "e", "a", "l">>), Named(imag, <<"i", "m", "a", "g">>)>>)

Longs == {LongValue(<<"1">>), LongValue(<<"2">>)}

Points ==
    {StructValue(STR_Point, "Struct", <<Named(x, <<"x">>), Named(y, <<"y">>)>>) :
        x \in Longs, y \in Longs}

SeqsOf(S, n) == UNION {[1..k -> S] : k \in 0..n}

FormatInputs ==
    Longs \cup Points
      \cup {InvalidValue, UnreadableString,
            SBValue(TRUE, STR_string, None, Some(<<"\"", "h", "i", "\"">>), None, 0, None),
            SBValue(TRUE, <<"b", "o", "o", "l">>, None, None, None, 0, None)}
      \cup {ComplexValue(re, im) : re \in Longs, im \in Longs \cup {InvalidValue}}
      \cup {ArrayValue(STR_long, "Builtin", c) : c \in SeqsOf(Longs, MaxElems)}
      \cup {ArrayValue(STR_Point, "Struct", c) : c \in SeqsOf(Points, MaxElems)}
      \cup {SliceValue(STR_long, c) : c \in SeqsOf(Longs, MaxElems)}
      \cup {SliceValue(STR_Point, c) : c \in SeqsOf(Points, MaxElems)}

InitFormat ==
    /\ NoRun
    /\ pc = "call"
    /\ arg \in FormatInputs
    /\ ret = <<>>

CallFormatValue ==
    /\ pc = "call"
    /\ ret' = format_value(arg)
    /\ pc' = "return"
    /\ UNCHANGED <<runVars, idx, results, breakpoint, dbgVars, consoleVars, exc, outVars,
                   hist, arg>>

NextFormat == CallFormatValue

SpecFormat == InitFormat /\ [][NextFormat]_vars

\* the number of places of s where sub begins
Occurrences(s, sub) ==
    Cardinality({k \in 1..(Len(s) - Len(sub) + 1) : SubSeq(s, k, k + Len(sub) - 1) = sub})

(* C16: format_value renders a fixed-size array whose element type is a    *)
(* struct or class as format_custom_array does, [N]ElementType[(f0 = v0,   *)
(* ...), ...] with every element rendered by format_struct without its     *)
(* type name, so that the name of the element type occurs once.            *)
C16_ArrayOfComposite ==
    pc = "return" /\ IsArrayType(arg) /\ arg.element_class \in {"Struct", "Class"} =>
        /\ ret = Some(format_custom_array(arg))
        /\ Occurrences(Get(ret), arg.element_type) = 1

====
